---- MODULE Spec2Model ----
(***************************************************************************)
(* The question bank of savvy-quizcraft: the QuestionStore singleton       *)
(* (src/src/utils/questionStore.ts) and the QuestionSelector that builds   *)
(* exams from it (src/unnamed/part_001).                                   *)
(*                                                                         *)
(* A question is the record [id, topic, difficulty]; its text, options,    *)
(* answer and explanation are never read by the store or the selector.     *)
(* Ids are strings in the source, compared for equality only: the seeded   *)
(* ids "1".."10" are the numbers 1..10 here.  The selector compares        *)
(* questions by object identity (indexOf, includes); the store holds at    *)
(* most one object per id, so record equality is that identity.            *)
(*                                                                         *)
(* Beside the store stand the two other singletons over the same           *)
(* questions: the TopicTree (src/src/utils/topicTree.ts) and the           *)
(* QuestionGraphManager (src/unnamed/part_000).  Each is seeded with the   *)
(* sample questions and changed through its own methods only.              *)
(*                                                                         *)
(* op, question, id, config and maxDepth record the last call and its      *)
(* arguments, ret, exam and related what it returned.  nodeName and        *)
(* parentId are the name and parent given to the tree's addQuestion and    *)
(* addTopicNode; candidates and targets are the question list given to     *)
(* calculateDistribution and the distribution it returned.                 *)
(***************************************************************************)
EXTENDS Integers, Sequences, FiniteSets, TLC

VARIABLES store, idSet, tree, nodes, edges,
          op, question, id, config, maxDepth, nodeName, parentId, candidates,
          ret, exam, related, targets

vars ==
  <<store, idSet, tree, nodes, edges,
    op, question, id, config, maxDepth, nodeName, parentId, candidates,
    ret, exam, related, targets>>

----------------------------------------------------------------------------
(* Types                                                                   *)

DifficultySet == {"Easy", "Medium", "Hard"}

\* The constructor's topic list; Object.keys(this.store) iterates in this order.
TopicOrder ==
  <<"Arrays", "Strings", "Linked Lists", "Trees", "Graphs",
    "Dynamic Programming", "Sorting", "Searching", "Recursion",
    "Greedy Algorithms">>

Topic == {TopicOrder[i] : i \in 1..Len(TopicOrder)}

Q(i, d, t) == [id |-> i, topic |-> t, difficulty |-> d]

sampleQuestions ==
  << Q(1, "Easy", "Searching"),
     Q(2, "Easy", "Arrays"),
     Q(3, "Medium", "Linked Lists"),
     Q(4, "Medium", "Dynamic Programming"),
     Q(5, "Hard", "Graphs"),
     Q(6, "Medium", "Sorting"),
     Q(7, "Easy", "Trees"),
     Q(8, "Hard", "Recursion"),
     Q(9, "Medium", "Greedy Algorithms"),
     Q(10, "Hard", "Strings") >>

----------------------------------------------------------------------------
(* Bounds of the model                                                     *)

\* Spec: ids 11 .. 10 + MaxNewIds are added beyond the seeded ones
MaxNewIds == 1

\* SpecGraph: ids 11 .. 10 + MaxGraphIds are added to the graph
MaxGraphIds == 4

\* SpecGraph: getRelatedQuestions is asked for depths 0 .. MaxDepth
MaxDepth == 2

\* SpecTree: at most MaxNewNodes topic nodes are added to the constructed
\* tree
MaxNewNodes == 1

\* SpecTree: addQuestion is called while the root lists fewer than
\* 10 + MaxRootCopies questions
MaxRootCopies == 3

\* SpecDistribution: totalQuestions is 1 .. MaxTotal, each weight is
\* 0 .. MaxShare and the candidates hold 0 .. MaxAvailable questions of
\* each difficulty
MaxTotal == 12

MaxShare == 4

MaxAvailable == 2

\* SpecExam: ids 11 .. 10 + MaxExamIds are added beyond the seeded ones
MaxExamIds == 3

\* SpecExam: generateExam is called with numQuestions in 1..MaxNum
MaxNum == 4

\* each difficulty weight is in 0..MaxWeight
MaxWeight == 1

\* SpecExam: config.topics has at most MaxTopics entries (repeats allowed)
MaxTopics == 2

NoQuestion == [id |-> 0, topic |-> "", difficulty |-> ""]

NoDistribution == [Easy |-> 0, Medium |-> 0, Hard |-> 0]

NoConfig ==
  [numQuestions |-> 0,
   difficulties |-> [Easy |-> 0, Medium |-> 0, Hard |-> 0],
   topics |-> <<>>]

----------------------------------------------------------------------------
(* Sequence helpers (Array.prototype.filter / splice / findIndex)          *)

Min(a, b) == IF a <= b THEN a ELSE b

RemoveAt(s, i) == SubSeq(s, 1, i - 1) \o SubSeq(s, i + 1, Len(s))

Range(s) == {s[i] : i \in 1..Len(s)}

\* questions.filter(q => q.difficulty === d)
FilterDifficulty(qs, d) ==
  LET keep(q) == q.difficulty = d IN SelectSeq(qs, keep)

\* questions.findIndex(q => q.id === i), 0 for -1
FindIndexById(qs, i) ==
  IF \E k \in 1..Len(qs) : qs[k].id = i
  THEN CHOOSE k \in 1..Len(qs) :
         /\ qs[k].id = i
         /\ \A j \in 1..(k - 1) : qs[j].id # i
  ELSE 0

\* array.indexOf(q), 0 for -1
IndexOf(qs, q) ==
  IF \E k \in 1..Len(qs) : qs[k] = q
  THEN CHOOSE k \in 1..Len(qs) :
         /\ qs[k] = q
         /\ \A j \in 1..(k - 1) : qs[j] # q
  ELSE 0

----------------------------------------------------------------------------
(* QuestionStore                                                           *)

\* the constructor: an empty bucket per topic and difficulty, no id seen
EmptyStore == [t \in Topic |-> [d \in DifficultySet |-> <<>>]]

\* addQuestion without the seen-id test
addQuestionNoCheck(st, q) ==
  [store |-> [st.store EXCEPT ![q.topic][q.difficulty] = Append(@, q)],
   idSet |-> st.idSet \cup {q.id},
   ret |-> TRUE]

\* addQuestion filing every question in the Easy bucket of its topic
addQuestionMisfiled(st, q) ==
  IF q.id \in st.idSet
  THEN [store |-> st.store, idSet |-> st.idSet, ret |-> FALSE]
  ELSE [store |-> [st.store EXCEPT ![q.topic]["Easy"] = Append(@, q)],
        idSet |-> st.idSet \cup {q.id},
        ret |-> TRUE]

\* addQuestion on a store value st = [store, idSet]: the new value and the
\* boolean it returns.  The "ensure topic exists" branch is not taken for a
\* question whose topic is of type Topic: the constructor made all ten.
addQuestion(st, q) ==
  IF q.id \in st.idSet
  THEN [store |-> st.store, idSet |-> st.idSet, ret |-> FALSE]
  ELSE [store |-> [st.store EXCEPT ![q.topic][q.difficulty] = Append(@, q)],
        idSet |-> st.idSet \cup {q.id},
        ret |-> TRUE]

\* removeQuestion forgetting the id without splicing the bucket
removeQuestionKeepsEntry(st, i) ==
  [store |-> st.store, idSet |-> st.idSet \ {i}, ret |-> i \in st.idSet]

\* removeQuestion with "removed" starting out true
removeQuestionAlwaysTrue(st, i) ==
  [store |-> st.store, idSet |-> st.idSet, ret |-> TRUE]

\* removeQuestion splicing the bucket without idSet.delete
removeQuestionKeepsId(st, i) ==
  IF i \notin st.idSet
  THEN [store |-> st.store, idSet |-> st.idSet, ret |-> FALSE]
  ELSE LET strip(qs) ==
             IF FindIndexById(qs, i) # 0
             THEN RemoveAt(qs, FindIndexById(qs, i))
             ELSE qs
       IN [store |-> [t \in Topic |->
                        [d \in DifficultySet |-> strip(st.store[t][d])]],
           idSet |-> st.idSet,
           ret |-> TRUE]

\* removeQuestion: every bucket is scanned and loses its first question
\* with the id; the id is forgotten when some bucket held it
removeQuestion(st, i) ==
  IF i \notin st.idSet
  THEN [store |-> st.store, idSet |-> st.idSet, ret |-> FALSE]
  ELSE LET found ==
             \E t \in Topic, d \in DifficultySet :
               FindIndexById(st.store[t][d], i) # 0
           strip(qs) ==
             IF FindIndexById(qs, i) # 0
             THEN RemoveAt(qs, FindIndexById(qs, i))
             ELSE qs
       IN [store |-> [t \in Topic |->
                        [d \in DifficultySet |-> strip(st.store[t][d])]],
           idSet |-> IF found THEN st.idSet \ {i} ELSE st.idSet,
           ret |-> found]

\* getQuestionsByTopic: Easy, then Medium, then Hard of the topic
getQuestionsByTopic(s, t) ==
  IF t \notin DOMAIN s
  THEN <<>>
  ELSE s[t]["Easy"] \o s[t]["Medium"] \o s[t]["Hard"]

RECURSIVE ConcatTopics(_, _, _)
ConcatTopics(s, order, k) ==
  IF k > Len(order)
  THEN <<>>
  ELSE getQuestionsByTopic(s, order[k]) \o ConcatTopics(s, order, k + 1)

\* getAllQuestions: topic-major in Object.keys order, difficulty-minor
getAllQuestions(s) == ConcatTopics(s, TopicOrder, 1)

RECURSIVE ConcatDifficulty(_, _, _, _)
ConcatDifficulty(s, order, d, k) ==
  IF k > Len(order)
  THEN <<>>
  ELSE (IF order[k] \in DOMAIN s THEN s[order[k]][d] ELSE <<>>)
         \o ConcatDifficulty(s, order, d, k + 1)

\* getQuestionsByDifficulty: the difficulty's bucket of every topic, in
\* Object.keys order
getQuestionsByDifficulty(s, d) == ConcatDifficulty(s, TopicOrder, d, 1)

\* the counting loops of getQuestionCounts over the topics from entry k on:
\* each bucket's length is added to its topic, its difficulty and the total
RECURSIVE CountFrom(_, _, _, _)
CountFrom(s, order, k, counts) ==
  IF k > Len(order)
  THEN counts
  ELSE LET t == order[k]
           len(d) == Len(s[t][d])
       IN CountFrom(s, order, k + 1,
            [total |-> counts.total + len("Easy") + len("Medium") + len("Hard"),
             byTopic |-> [counts.byTopic EXCEPT
                            ![t] = len("Easy") + len("Medium") + len("Hard")],
             byDifficulty |-> [d \in DifficultySet |->
                                 counts.byDifficulty[d] + len(d)]])

\* getQuestionCounts with byDifficulty assigned (=) where it is summed (+=)
getQuestionCountsAssigned(s) ==
  LET c == CountFrom(s, TopicOrder, 1,
             [total |-> 0, byTopic |-> [t \in Topic |-> 0],
              byDifficulty |-> [d \in DifficultySet |-> 0]])
  IN [c EXCEPT !.byDifficulty =
        [d \in DifficultySet |-> Len(s[TopicOrder[Len(TopicOrder)]][d])]]

\* getQuestionCounts: total, per topic and per difficulty
getQuestionCounts(s) ==
  CountFrom(s, TopicOrder, 1,
    [total |-> 0, byTopic |-> [t \in Topic |-> 0],
     byDifficulty |-> [d \in DifficultySet |-> 0]])

\* sampleQuestions.forEach(q => questionStore.addQuestion(q))
RECURSIVE Seed(_, _)
Seed(st, k) ==
  IF k > Len(sampleQuestions)
  THEN st
  ELSE Seed(addQuestion(st, sampleQuestions[k]), k + 1)

SeededStore == Seed([store |-> EmptyStore, idSet |-> {}], 1)

----------------------------------------------------------------------------
(* QuestionSelector                                                        *)

RECURSIVE ConcatByTopic(_, _, _)
ConcatByTopic(s, topics, k) ==
  IF k > Len(topics)
  THEN <<>>
  ELSE getQuestionsByTopic(s, topics[k]) \o ConcatByTopic(s, topics, k + 1)

\* getAvailableQuestions ignoring the topic list
getAvailableQuestionsUnfiltered(s, topics) == getAllQuestions(s)

\* getAvailableQuestions: everything for an empty topic list, otherwise the
\* topics' questions pushed list entry by list entry
getAvailableQuestions(s, topics) ==
  IF Len(topics) = 0
  THEN getAllQuestions(s)
  ELSE ConcatByTopic(s, topics, 1)

\* Math.ceil in place of Math.round
RoundUp(weight, totalWeight, totalQuestions) ==
  (weight * totalQuestions + totalWeight - 1) \div totalWeight

\* Math.round((weight / totalWeight) * totalQuestions): the nearest integer,
\* a half rounding up.  The double product differs from the exact quotient
\* by less than the distance to the nearest half for every input drawn
\* below (the smallest deviating call is 7/10 * 45).
Round(weight, totalWeight, totalQuestions) ==
  (2 * weight * totalQuestions + totalWeight) \div (2 * totalWeight)

\* the desired distribution with Math.ceil in place of Math.round
DesiredCeil(totalQuestions, difficulties) ==
  LET totalWeight ==
        difficulties.Easy + difficulties.Medium + difficulties.Hard
  IN [d \in DifficultySet |->
        (difficulties[d] * totalQuestions + totalWeight - 1) \div totalWeight]

\* the desired distribution based on weights
Desired(totalQuestions, difficulties) ==
  LET totalWeight ==
        difficulties.Easy + difficulties.Medium + difficulties.Hard
  IN [d \in DifficultySet |->
        Round(difficulties[d], totalWeight, totalQuestions)]

\* the reduction loop left out
ReduceNothing(distribution, excess) == distribution

\* the reduction loop run over Easy, Medium, Hard
ReduceEasyFirst(distribution, excess) ==
  LET rE == Min(distribution.Easy, excess)
      rM == Min(distribution.Medium, excess - rE)
      rH == Min(distribution.Hard, excess - rE - rM)
  IN [Easy |-> distribution.Easy - rE,
      Medium |-> distribution.Medium - rM,
      Hard |-> distribution.Hard - rH]

\* the "reduce from highest difficulty first" loop over Hard, Medium, Easy
Reduce(distribution, excess) ==
  LET rH == Min(distribution.Hard, excess)
      rM == Min(distribution.Medium, excess - rH)
      rE == Min(distribution.Easy, excess - rH - rM)
  IN [Easy |-> distribution.Easy - rE,
      Medium |-> distribution.Medium - rM,
      Hard |-> distribution.Hard - rH]

calculateDistribution(totalQuestions, difficulties, availableQuestions) ==
  LET availableCounts ==
        [d \in DifficultySet |-> Len(FilterDifficulty(availableQuestions, d))]
      desired == Desired(totalQuestions, difficulties)
      distribution ==
        [d \in DifficultySet |-> Min(desired[d], availableCounts[d])]
      total == distribution.Easy + distribution.Medium + distribution.Hard
  IN IF total < totalQuestions
     THEN distribution
     ELSE IF total > totalQuestions
          THEN Reduce(distribution, total - totalQuestions)
          ELSE distribution

\* getRandomElements without copy.splice: a drawn entry can be drawn again
getRandomElementsNoSplice(array, count) ==
  IF count <= 0 \/ Len(array) = 0
  THEN {<<>>}
  ELSE { [k \in 1..count |-> array[f[k]]] : f \in [1..count -> 1..Len(array)] }

\* getRandomElements: every sequence the draws can produce.  Each draw
\* takes any index of the shrinking copy and removes that entry.
RECURSIVE getRandomElements(_, _)
getRandomElements(array, count) ==
  IF count <= 0 \/ Len(array) = 0
  THEN {<<>>}
  ELSE UNION { { <<array[k]>> \o r :
                   r \in getRandomElements(RemoveAt(array, k), count - 1) } :
               k \in 1..Len(array) }

\* selectedFromTopic.forEach(q => splice(indexOf(q), 1) when found)
RECURSIVE RemoveSelected(_, _, _)
RemoveSelected(topicQuestions, picked, k) ==
  IF k > Len(picked)
  THEN topicQuestions
  ELSE LET index == IndexOf(topicQuestions, picked[k])
       IN RemoveSelected(
            IF index # 0 THEN RemoveAt(topicQuestions, index)
                         ELSE topicQuestions,
            picked, k + 1)

\* the "select questions from each topic" loop from entry k of
\* topicsWithQuestions on, with questionsByTopic, remainingCount and
\* basePerTopic as they stand: every [selected, remainingCount] it can end with
RECURSIVE FirstPass(_, _, _, _, _, _, _)
FirstPass(withQuestions, k, byTopic, selected, remainder, remaining, perTopic) ==
  IF k > Len(withQuestions)
  THEN {[selected |-> selected, remainingCount |-> remaining]}
  ELSE LET topic == withQuestions[k]
           topicQuestions == byTopic[topic]
           base == Min(perTopic, Len(topicQuestions))
           bump == remainder > 0 /\ Len(topicQuestions) > base
           topicCount == IF bump THEN base + 1 ELSE base
       IN UNION { FirstPass(
                    withQuestions, k + 1,
                    [byTopic EXCEPT
                       ![topic] = RemoveSelected(topicQuestions, picked, 1)],
                    selected \o picked,
                    IF bump THEN remainder - 1 ELSE remainder,
                    remaining - topicCount,
                    perTopic) :
                  picked \in getRandomElements(topicQuestions, topicCount) }

\* the second pass left out: the first pass's selection is returned as it is
SecondPassSkipped(questions, selected, remainingCount) == {selected}

\* the second pass: fill the remaining slots from the questions not selected
SecondPass(questions, selected, remainingCount) ==
  IF remainingCount > 0
  THEN LET notSelected(q) == q \notin Range(selected)
           remaining == SelectSeq(questions, notSelected)
       IN { selected \o additional :
              additional \in getRandomElements(remaining, remainingCount) }
  ELSE {selected}

\* the topic-balanced selection with the remainder never handed out in the
\* first pass
SelectByTopicNoRemainder(questions, count, topics) ==
  LET questionsByTopic ==
        [t \in Range(topics) |->
           LET ofTopic(q) == q.topic = t IN SelectSeq(questions, ofTopic)]
      hasQuestions(t) == Len(questionsByTopic[t]) > 0
      topicsWithQuestions == SelectSeq(topics, hasQuestions)
  IN IF Len(topicsWithQuestions) = 0
     THEN {<<>>}
     ELSE LET n == Len(topicsWithQuestions)
          IN UNION { SecondPass(questions, r.selected, r.remainingCount) :
                     r \in FirstPass(topicsWithQuestions, 1,
                                     questionsByTopic, <<>>, 0,
                                     count, count \div n) }

\* the topic-balanced selection of selectQuestionsWithDiversity, taken when
\* more questions are available than asked for
SelectByTopic(questions, count, topics) ==
  LET questionsByTopic ==
        [t \in Range(topics) |->
           LET ofTopic(q) == q.topic = t IN SelectSeq(questions, ofTopic)]
      hasQuestions(t) == Len(questionsByTopic[t]) > 0
      topicsWithQuestions == SelectSeq(topics, hasQuestions)
  IN IF Len(topicsWithQuestions) = 0
     THEN {<<>>}
     ELSE LET n == Len(topicsWithQuestions)
          IN UNION { SecondPass(questions, r.selected, r.remainingCount) :
                     r \in FirstPass(topicsWithQuestions, 1,
                                     questionsByTopic, <<>>, count % n,
                                     count, count \div n) }

\* selectQuestionsWithDiversity returning everything only when fewer
\* questions are available than asked for (< in place of <=)
selectQuestionsWithDiversityStrict(questions, count, topics) ==
  IF Len(questions) < count
  THEN {questions}
  ELSE SelectByTopic(questions, count, topics)

\* selectQuestionsWithDiversity: every sequence it can return
selectQuestionsWithDiversity(questions, count, topics) ==
  IF Len(questions) <= count
  THEN {questions}
  ELSE SelectByTopic(questions, count, topics)

\* one difficulty's share of generateExam's loop
SelectForDifficulty(availableQuestions, distribution, topics, difficulty) ==
  LET count == distribution[difficulty]
      questionsOfDifficulty == FilterDifficulty(availableQuestions, difficulty)
      toSelect == Min(count, Len(questionsOfDifficulty))
  IN IF count <= 0
     THEN {<<>>}
     ELSE selectQuestionsWithDiversity(questionsOfDifficulty, toSelect, topics)

\* generateExam with the loop run over Hard, Medium, Easy
generateExamHardFirst(s, cfg) ==
  LET availableQuestions == getAvailableQuestions(s, cfg.topics)
      distribution ==
        calculateDistribution(cfg.numQuestions, cfg.difficulties,
                              availableQuestions)
      sel(d) == SelectForDifficulty(availableQuestions, distribution,
                                    cfg.topics, d)
  IN { h \o m \o e : e \in sel("Easy"), m \in sel("Medium"), h \in sel("Hard") }

\* generateExam: every question sequence the result can hold
generateExam(s, cfg) ==
  LET availableQuestions == getAvailableQuestions(s, cfg.topics)
      distribution ==
        calculateDistribution(cfg.numQuestions, cfg.difficulties,
                              availableQuestions)
      sel(d) == SelectForDifficulty(availableQuestions, distribution,
                                    cfg.topics, d)
  IN { e \o m \o h : e \in sel("Easy"), m \in sel("Medium"), h \in sel("Hard") }

----------------------------------------------------------------------------
(* TopicTree                                                               *)
(*                                                                         *)
(* The tree is the sequence of its nodes in creation order, the root       *)
(* first; a node is [name, parent, questions] with parent the index of     *)
(* its parent (0 for the root).  children.push keeps a node's children in  *)
(* creation order.                                                         *)

\* node.children, as node indices
Children(tr, p) ==
  LET isChild(i) == tr[i].parent = p
  IN SelectSeq([i \in 1..Len(tr) |-> i], isChild)

\* the order in which findNodeByName's queue hands out the nodes
RECURSIVE BfsOrder(_, _)
BfsOrder(tr, queue) ==
  IF Len(queue) = 0
  THEN <<>>
  ELSE <<Head(queue)>> \o BfsOrder(tr, Tail(queue) \o Children(tr, Head(queue)))

\* findNodeByName: the first node of that name in breadth-first order, 0
\* for null
findNodeByName(tr, name) ==
  LET order == BfsOrder(tr, <<1>>)
      hits == {k \in 1..Len(order) : tr[order[k]].name = name}
  IN IF hits = {}
     THEN 0
     ELSE order[CHOOSE k \in hits : \A j \in hits : k <= j]

\* the id of the root, 'root' in the source; the other nodes' ids (uuids
\* there) are their indices too
RootId == 1

\* findNodeById from the root: every node of the sequence hangs in the
\* tree, so the search finds the node exactly when the id is one of them;
\* 0 for null
findNodeById(tr, nid) == IF nid \in 1..Len(tr) THEN nid ELSE 0

\* addTopicNode(topic, parentId): a node whose parent is not found is
\* made and returned but hangs nowhere, and the tree is as it was
addTopicNode(tr, topic, parent) ==
  IF findNodeById(tr, parent) # 0
  THEN Append(tr, [name |-> topic, parent |-> parent, questions |-> <<>>])
  ELSE tr

RECURSIVE AddTopicNodes(_, _)
AddTopicNodes(tr, k) ==
  IF k > Len(TopicOrder)
  THEN tr
  ELSE AddTopicNodes(addTopicNode(tr, TopicOrder[k], RootId), k + 1)

\* the TopicTree constructor: the root and a child per topic
EmptyTree ==
  AddTopicNodes(<<[name |-> "All Topics", parent |-> 0, questions |-> <<>>]>>, 1)

\* TopicTree.addQuestion: the new tree and the boolean returned
treeAddQuestion(tr, q, topicName) ==
  LET topicNode == findNodeByName(tr, topicName)
  IN IF topicNode # 0 /\ FindIndexById(tr[topicNode].questions, q.id) = 0
     THEN LET pushed == [tr EXCEPT ![topicNode].questions = Append(@, q)]
          IN [tree |-> [pushed EXCEPT ![1].questions = Append(@, q)],
              ret |-> TRUE]
     ELSE [tree |-> tr, ret |-> FALSE]

\* findIndex and splice(index, 1): the first question of that id leaves
RemoveFirstById(qs, i) ==
  IF FindIndexById(qs, i) = 0 THEN qs ELSE RemoveAt(qs, FindIndexById(qs, i))

\* TopicTree.removeQuestion: the root's list first, then removeFromNode on
\* every node from the root down, the root once more among them
treeRemoveQuestion(tr, i) ==
  LET removed == FindIndexById(tr[1].questions, i) # 0
      rootDone == [tr EXCEPT ![1].questions = RemoveFirstById(@, i)]
  IN [tree |-> [k \in 1..Len(rootDone) |->
                  [rootDone[k] EXCEPT !.questions = RemoveFirstById(@, i)]],
      ret |-> removed]

\* the ids of the questions some node of the tree lists
TreeIds(tr) ==
  UNION { {q.id : q \in Range(tr[k].questions)} : k \in 1..Len(tr) }

\* sampleQuestions.forEach(q => topicTree.addQuestion(q)): a question the
\* tree turns down leaves it as it was
RECURSIVE SeedTree(_, _)
SeedTree(tr, k) ==
  IF k > Len(sampleQuestions)
  THEN tr
  ELSE LET r == treeAddQuestion(tr, sampleQuestions[k], sampleQuestions[k].topic)
       IN IF r.ret THEN SeedTree(r.tree, k + 1) ELSE SeedTree(tr, k + 1)

SeededTree == SeedTree(EmptyTree, 1)

----------------------------------------------------------------------------
(* QuestionGraphManager                                                    *)
(*                                                                         *)
(* graph.nodes is the function from the ids of the map to their           *)
(* questions, graph.edges the function from the ids that have an           *)
(* adjacency list to that list.  The insertion order of graph.nodes is     *)
(* left out: the manager reads it only to list the questions of a topic,   *)
(* and getRandomElements returns every arrangement of every selection of   *)
(* that list, whatever its order.                                          *)

NodeIds(ns) == DOMAIN ns

\* graph.nodes.get(i), for an id of the map
NodeOf(ns, i) == ns[i]

\* graph.nodes.set(q.id, q)
SetNode(ns, q) ==
  [j \in DOMAIN ns \cup {q.id} |-> IF j = q.id THEN q ELSE ns[j]]

\* the ids of a set, lowest first
RECURSIVE Ascending(_)
Ascending(ids) ==
  IF ids = {}
  THEN <<>>
  ELSE LET low == CHOOSE i \in ids : \A j \in ids : i <= j
       IN <<low>> \o Ascending(ids \ {low})

\* getRandomElements of the graph manager: every sequence the draws can
\* produce
RECURSIVE graphGetRandomElements(_, _)
graphGetRandomElements(array, count) ==
  IF count <= 0 \/ Len(array) = 0
  THEN {<<>>}
  ELSE UNION { { <<array[k]>> \o r :
                   r \in graphGetRandomElements(RemoveAt(array, k), count - 1) } :
               k \in 1..Len(array) }

\* the ids of the nodes of the question's topic, the question aside
SameTopicQuestions(ns, q) ==
  Ascending({i \in DOMAIN ns : i # q.id /\ ns[i].topic = q.topic})

\* edges.get(i) || []
EdgesOf(es, i) == IF i \in DOMAIN es THEN es[i] ELSE <<>>

\* edges.set(i, list)
SetEdges(es, i, list) ==
  [j \in DOMAIN es \cup {i} |-> IF j = i THEN list ELSE es[j]]

\* the forEach with the edge from the related question back left out
RECURSIVE CreateEdgesOneWay(_, _, _, _)
CreateEdgesOneWay(es, q, selected, k) ==
  IF k > Len(selected)
  THEN es
  ELSE LET relatedId == selected[k]
           currentEdges == EdgesOf(es, q.id)
           es1 == IF relatedId \notin Range(currentEdges)
                  THEN SetEdges(es, q.id, Append(currentEdges, relatedId))
                  ELSE es
       IN CreateEdgesOneWay(es1, q, selected, k + 1)

\* the forEach of findAndCreateRelationships from entry k of the selected
\* ids on: an edge in both directions, none twice
RECURSIVE CreateEdges(_, _, _, _)
CreateEdges(es, q, selected, k) ==
  IF k > Len(selected)
  THEN es
  ELSE LET relatedId == selected[k]
           currentEdges == EdgesOf(es, q.id)
           es1 == IF relatedId \notin Range(currentEdges)
                  THEN SetEdges(es, q.id, Append(currentEdges, relatedId))
                  ELSE es
           relatedEdges == EdgesOf(es1, relatedId)
           es2 == IF q.id \notin Range(relatedEdges)
                  THEN SetEdges(es1, relatedId, Append(relatedEdges, q.id))
                  ELSE es1
       IN CreateEdges(es2, q, selected, k + 1)

\* findAndCreateRelationships without the limit of 3
findAndCreateRelationshipsAll(ns, es, q) ==
  LET sameTopicQuestions == SameTopicQuestions(ns, q)
  IN { CreateEdges(es, q, selected, 1) :
         selected \in graphGetRandomElements(sameTopicQuestions,
                                             Len(sameTopicQuestions)) }

\* findAndCreateRelationships: every edge map it can leave
findAndCreateRelationships(ns, es, q) ==
  LET sameTopicQuestions == SameTopicQuestions(ns, q)
      relatedQuestionsCount == Min(3, Len(sameTopicQuestions))
  IN { CreateEdges(es, q, selected, 1) :
         selected \in graphGetRandomElements(sameTopicQuestions,
                                             relatedQuestionsCount) }

\* QuestionGraphManager.addQuestion: every [nodes, edges, ret] it can end in
graphAddQuestion(g, q) ==
  IF q.id \in NodeIds(g.nodes)
  THEN {[nodes |-> g.nodes, edges |-> g.edges, ret |-> FALSE]}
  ELSE LET ns == SetNode(g.nodes, q)
           es == SetEdges(g.edges, q.id, <<>>)
       IN { [nodes |-> ns, edges |-> es2, ret |-> TRUE] :
              es2 \in findAndCreateRelationships(ns, es, q) }

\* connectedIds.filter(connectedId => connectedId !== i)
WithoutId(connectedIds, i) ==
  LET keep(c) == c # i IN SelectSeq(connectedIds, keep)

\* removeQuestion with the removed node's own adjacency list kept
graphRemoveQuestionKeepsList(g, i) ==
  IF i \notin NodeIds(g.nodes)
  THEN [nodes |-> g.nodes, edges |-> g.edges, ret |-> FALSE]
  ELSE [nodes |-> [j \in DOMAIN g.nodes \ {i} |-> g.nodes[j]],
        edges |-> [j \in DOMAIN g.edges |-> WithoutId(g.edges[j], i)],
        ret |-> TRUE]

\* removeQuestion with the other adjacency lists left as they are
graphRemoveQuestionKeepsReferences(g, i) ==
  IF i \notin NodeIds(g.nodes)
  THEN [nodes |-> g.nodes, edges |-> g.edges, ret |-> FALSE]
  ELSE [nodes |-> [j \in DOMAIN g.nodes \ {i} |-> g.nodes[j]],
        edges |-> [j \in DOMAIN g.edges \ {i} |-> g.edges[j]],
        ret |-> TRUE]

\* QuestionGraphManager.removeQuestion
graphRemoveQuestion(g, i) ==
  IF i \notin NodeIds(g.nodes)
  THEN [nodes |-> g.nodes, edges |-> g.edges, ret |-> FALSE]
  ELSE [nodes |-> [j \in DOMAIN g.nodes \ {i} |-> g.nodes[j]],
        edges |-> [j \in DOMAIN g.edges \ {i} |-> WithoutId(g.edges[j], i)],
        ret |-> TRUE]

\* the while loop of getRelatedQuestions: queue of [id, depth], visited
\* set, result so far
RECURSIVE Traverse(_, _, _, _, _, _)
Traverse(ns, es, limit, queue, visited, result) ==
  IF Len(queue) = 0
  THEN result
  ELSE LET current == Head(queue)
           result1 ==
             IF current.depth > 0 /\ current.id \in NodeIds(ns)
             THEN Append(result, NodeOf(ns, current.id))
             ELSE result
       IN IF current.depth >= limit
          THEN Traverse(ns, es, limit, Tail(queue), visited, result1)
          ELSE LET neighbors == EdgesOf(es, current.id)
                   \* the neighbours not visited, each once, in list order
                   fresh(k) ==
                     /\ neighbors[k] \notin visited
                     /\ \A j \in 1..(k - 1) : neighbors[j] # neighbors[k]
                   at == SelectSeq([k \in 1..Len(neighbors) |-> k], fresh)
                   pushed == [k \in 1..Len(at) |->
                                [id |-> neighbors[at[k]],
                                 depth |-> current.depth + 1]]
               IN Traverse(ns, es, limit, Tail(queue) \o pushed,
                           visited \cup Range(neighbors), result1)

\* getRelatedQuestions with "depth > 0" left out: the start node is pushed
getRelatedQuestionsWithStart(ns, es, questionId, limit) ==
  IF questionId \notin NodeIds(ns)
  THEN <<>>
  ELSE <<NodeOf(ns, questionId)>>
         \o Traverse(ns, es, limit, <<[id |-> questionId, depth |-> 0]>>,
                     {questionId}, <<>>)

\* getRelatedQuestions going one level beyond maxDepth (> in place of >=)
getRelatedQuestionsTooDeep(ns, es, questionId, limit) ==
  IF questionId \notin NodeIds(ns)
  THEN <<>>
  ELSE Traverse(ns, es, limit + 1, <<[id |-> questionId, depth |-> 0]>>,
                {questionId}, <<>>)

\* getRelatedQuestions(questionId, maxDepth)
getRelatedQuestions(ns, es, questionId, limit) ==
  IF questionId \notin NodeIds(ns)
  THEN <<>>
  ELSE Traverse(ns, es, limit, <<[id |-> questionId, depth |-> 0]>>,
                {questionId}, <<>>)

\* sampleQuestions.forEach(q => questionGraph.addQuestion(q)): every graph
\* the seeding can leave
RECURSIVE SeedGraph(_, _)
SeedGraph(g, k) ==
  IF k > Len(sampleQuestions)
  THEN {g}
  ELSE UNION { SeedGraph([nodes |-> r.nodes, edges |-> r.edges], k + 1) :
               r \in graphAddQuestion(g, sampleQuestions[k]) }

SeededGraphs == SeedGraph([nodes |-> <<>>, edges |-> <<>>], 1)

----------------------------------------------------------------------------
(* Inputs                                                                  *)

FirstNewId == Len(sampleQuestions) + 1

WeightInputs ==
  {w \in [DifficultySet -> 0..MaxWeight] : w.Easy + w.Medium + w.Hard > 0}

Configs(nums, topicLists) ==
  {[numQuestions |-> n, difficulties |-> w, topics |-> ts] :
     n \in nums, w \in WeightInputs, ts \in topicLists}

\* Spec: the repository is changed freely (a seeded id and new ones, filed
\* under two topics and any difficulty) and exams are asked for with the
\* sizes of the documented scenarios
IdInputs == {2} \cup (FirstNewId .. FirstNewId + MaxNewIds - 1)

QuestionInputs ==
  {Q(i, d, t) : i \in IdInputs, d \in DifficultySet,
                t \in {"Arrays", "Linked Lists"}}

ConfigInputs == Configs({1, 4, 5, 9, 100}, {<<>>, <<"Arrays">>})

\* SpecExam: the repository grows under one topic (Easy questions, and one
\* Hard one) and exams of every small size are asked for with every short
\* topic list
ExamIdInputs == FirstNewId .. FirstNewId + MaxExamIds - 1

ExamQuestionInputs ==
  {Q(i, "Easy", "Arrays") : i \in ExamIdInputs}
    \cup {Q(FirstNewId, "Hard", "Arrays")}

ExamTopicLists ==
  UNION {[1..k -> {"Arrays", "Searching"}] : k \in 0..MaxTopics}

ExamConfigInputs == Configs(1..MaxNum, ExamTopicLists)

\* SpecGraph: the ids getRelatedQuestions is asked about, the seeded Arrays
\* question and the new ids
GraphIdInputs == {2} \cup (FirstNewId .. FirstNewId + MaxGraphIds - 1)

\* the id that is removed and added again
GraphRemoveInputs == {FirstNewId}

\* the ids added once and never removed are interchangeable: the graph
\* is offered the lowest of them it does not hold yet
FreshGraphIds(ns) ==
  LET unused == ((FirstNewId + 1) .. (FirstNewId + MaxGraphIds - 1)) \ NodeIds(ns)
  IN IF unused = {}
     THEN {}
     ELSE {CHOOSE i \in unused : \A j \in unused : i <= j}

\* the seeded Arrays question once more, the first new id under Arrays or
\* under the topic of the seeded question 1, and a fresh id under Arrays
GraphQuestionInputs(ns) ==
  {Q(2, "Easy", "Arrays"),
   Q(FirstNewId, "Easy", "Arrays"),
   Q(FirstNewId, "Hard", "Searching")}
    \cup {Q(i, "Easy", "Arrays") : i \in FreshGraphIds(ns)}

\* SpecDistribution: a candidate list of e Easy, m Medium and h Hard
\* questions
CandidatesOf(e, m, h) ==
  [k \in 1..(e + m + h) |->
     Q(k, IF k <= e THEN "Easy" ELSE IF k <= e + m THEN "Medium" ELSE "Hard",
       "Arrays")]

CandidateInputs ==
  {CandidatesOf(e, m, h) : e \in 0..MaxAvailable, m \in 0..MaxAvailable,
                           h \in 0..MaxAvailable}

ShareInputs ==
  {w \in [DifficultySet -> 0..MaxShare] : w.Easy + w.Medium + w.Hard > 0}

\* SpecTree: a seeded question and a new one are filed under their own
\* topic, another topic, the root's name and the name of a node that is
\* there only once it has been added; nodes are added under the root, under
\* the first topic node and under an id no node has, one of them with a
\* name the tree has already
TreeIdInputs == {2, FirstNewId}

TreeQuestionInputs ==
  {Q(2, "Easy", "Arrays"), Q(FirstNewId, "Easy", "Arrays")}

TreeNameInputs == {"Strings", "All Topics", "Heaps"}

TreeTopicInputs == {"Heaps", "Arrays"}

TreeParentInputs == {0, RootId, RootId + 1}

\* SpecIndex: a seeded question and a new one, in store, tree and graph
IndexIdInputs == {2, FirstNewId}

IndexQuestionInputs ==
  {Q(2, "Easy", "Arrays"), Q(FirstNewId, "Medium", "Arrays")}

----------------------------------------------------------------------------
(* The state machine                                                       *)

Init ==
  /\ store = SeededStore.store
  /\ idSet = SeededStore.idSet
  /\ tree = SeededTree
  /\ \E g \in SeededGraphs :
       /\ nodes = g.nodes
       /\ edges = g.edges
  /\ op = "init"
  /\ question = NoQuestion
  /\ id = 0
  /\ config = NoConfig
  /\ maxDepth = 0
  /\ ret = FALSE
  /\ nodeName = ""
  /\ parentId = 0
  /\ candidates = <<>>
  /\ exam = <<>>
  /\ related = <<>>
  /\ targets = NoDistribution

AddQuestion(inputs) ==
  \E q \in inputs :
    LET r == addQuestion([store |-> store, idSet |-> idSet], q)
    IN /\ store' = r.store
       /\ idSet' = r.idSet
       /\ ret' = r.ret
       /\ op' = "addQuestion"
       /\ question' = q
       /\ id' = 0
       /\ config' = NoConfig
       /\ maxDepth' = 0
       /\ exam' = <<>>
       /\ related' = <<>>
       /\ nodeName' = ""
       /\ parentId' = 0
       /\ UNCHANGED <<candidates, targets>>
       /\ UNCHANGED <<tree, nodes, edges>>

\* a removal that went on to the tree and the graph, which the store's
\* removeQuestion does not
RemoveQuestionCascading(inputs) ==
  \E i \in inputs :
    LET r == removeQuestion([store |-> store, idSet |-> idSet], i)
        g == graphRemoveQuestion([nodes |-> nodes, edges |-> edges], i)
    IN /\ store' = r.store
       /\ idSet' = r.idSet
       /\ tree' = IF r.ret THEN treeRemoveQuestion(tree, i).tree ELSE tree
       /\ nodes' = IF r.ret THEN g.nodes ELSE nodes
       /\ edges' = IF r.ret THEN g.edges ELSE edges
       /\ ret' = r.ret
       /\ op' = "removeQuestion"
       /\ question' = NoQuestion
       /\ id' = i
       /\ config' = NoConfig
       /\ maxDepth' = 0
       /\ exam' = <<>>
       /\ related' = <<>>
       /\ nodeName' = ""
       /\ parentId' = 0
       /\ UNCHANGED <<candidates, targets>>

RemoveQuestion(inputs) ==
  \E i \in inputs :
    LET r == removeQuestion([store |-> store, idSet |-> idSet], i)
    IN /\ store' = r.store
       /\ idSet' = r.idSet
       /\ ret' = r.ret
       /\ op' = "removeQuestion"
       /\ question' = NoQuestion
       /\ id' = i
       /\ config' = NoConfig
       /\ maxDepth' = 0
       /\ exam' = <<>>
       /\ related' = <<>>
       /\ nodeName' = ""
       /\ parentId' = 0
       /\ UNCHANGED <<candidates, targets>>
       /\ UNCHANGED <<tree, nodes, edges>>

\* generateExam with the selection's splices reaching the store's buckets:
\* every bucket loses the questions the exam selected
GenerateExamSplicingStore(inputs) ==
  \E cfg \in inputs :
    \E questions \in generateExam(store, cfg) :
      /\ exam' = questions
      /\ store' = [t \in Topic |->
                     [d \in DifficultySet |->
                        LET kept(q) == q \notin Range(questions)
                        IN SelectSeq(store[t][d], kept)]]
      /\ op' = "generateExam"
      /\ config' = cfg
      /\ question' = NoQuestion
      /\ id' = 0
      /\ ret' = FALSE
      /\ maxDepth' = 0
      /\ related' = <<>>
      /\ nodeName' = ""
      /\ parentId' = 0
      /\ UNCHANGED <<candidates, targets>>
      /\ UNCHANGED <<idSet, tree, nodes, edges>>

\* questionSelector.generateExam(cfg): the getters hand out fresh arrays
\* and the selection splices only its own lists, so the store is not written
GenerateExam(inputs) ==
  \E cfg \in inputs :
    \E questions \in generateExam(store, cfg) :
      /\ exam' = questions
      /\ op' = "generateExam"
      /\ config' = cfg
      /\ question' = NoQuestion
      /\ id' = 0
      /\ ret' = FALSE
      /\ maxDepth' = 0
      /\ related' = <<>>
      /\ nodeName' = ""
      /\ parentId' = 0
      /\ UNCHANGED <<candidates, targets>>
      /\ UNCHANGED <<store, idSet, tree, nodes, edges>>

\* topicTree.addTopicNode(topic, parentId), while the tree has fewer than
\* limit nodes
AddTopicNode(topics, parents, limit) ==
  /\ Len(tree) < limit
  /\ \E topic \in topics, parent \in parents :
       /\ tree' = addTopicNode(tree, topic, parent)
       /\ op' = "tree.addTopicNode"
       /\ nodeName' = topic
       /\ parentId' = parent
       /\ question' = NoQuestion
       /\ id' = 0
       /\ config' = NoConfig
       /\ maxDepth' = 0
       /\ ret' = FALSE
       /\ exam' = <<>>
       /\ related' = <<>>
       /\ UNCHANGED <<candidates, targets>>
       /\ UNCHANGED <<store, idSet, nodes, edges>>

\* topicTree.addQuestion(q, topicName), the topic name q.topic (the
\* default) or one of names, while the root lists fewer than limit
\* questions
TreeAddQuestion(inputs, names, limit) ==
  /\ Len(tree[RootId].questions) < limit
  /\ \E q \in inputs :
    \E topicName \in {q.topic} \cup names :
    LET r == treeAddQuestion(tree, q, topicName)
    IN /\ tree' = r.tree
       /\ ret' = r.ret
       /\ op' = "tree.addQuestion"
       /\ question' = q
       /\ id' = 0
       /\ config' = NoConfig
       /\ maxDepth' = 0
       /\ exam' = <<>>
       /\ related' = <<>>
       /\ nodeName' = topicName
       /\ parentId' = 0
       /\ UNCHANGED <<candidates, targets>>
       /\ UNCHANGED <<store, idSet, nodes, edges>>

TreeRemoveQuestion(inputs) ==
  \E i \in inputs :
    LET r == treeRemoveQuestion(tree, i)
    IN /\ tree' = r.tree
       /\ ret' = r.ret
       /\ op' = "tree.removeQuestion"
       /\ question' = NoQuestion
       /\ id' = i
       /\ config' = NoConfig
       /\ maxDepth' = 0
       /\ exam' = <<>>
       /\ related' = <<>>
       /\ nodeName' = ""
       /\ parentId' = 0
       /\ UNCHANGED <<candidates, targets>>
       /\ UNCHANGED <<store, idSet, nodes, edges>>

GraphAddQuestion(inputs) ==
  \E q \in inputs :
    \E r \in graphAddQuestion([nodes |-> nodes, edges |-> edges], q) :
      /\ nodes' = r.nodes
      /\ edges' = r.edges
      /\ ret' = r.ret
      /\ op' = "graph.addQuestion"
      /\ question' = q
      /\ id' = 0
      /\ config' = NoConfig
      /\ maxDepth' = 0
      /\ exam' = <<>>
      /\ related' = <<>>
      /\ nodeName' = ""
      /\ parentId' = 0
      /\ UNCHANGED <<candidates, targets>>
      /\ UNCHANGED <<store, idSet, tree>>

GraphRemoveQuestion(inputs) ==
  \E i \in inputs :
    LET r == graphRemoveQuestion([nodes |-> nodes, edges |-> edges], i)
    IN /\ nodes' = r.nodes
       /\ edges' = r.edges
       /\ ret' = r.ret
       /\ op' = "graph.removeQuestion"
       /\ question' = NoQuestion
       /\ id' = i
       /\ config' = NoConfig
       /\ maxDepth' = 0
       /\ exam' = <<>>
       /\ related' = <<>>
       /\ nodeName' = ""
       /\ parentId' = 0
       /\ UNCHANGED <<candidates, targets>>
       /\ UNCHANGED <<store, idSet, tree>>

GetRelatedQuestions(inputs, depths) ==
  \E i \in inputs, limit \in depths :
    /\ related' = getRelatedQuestions(nodes, edges, i, limit)
    /\ nodeName' = ""
    /\ parentId' = 0
    /\ UNCHANGED <<candidates, targets>>
    /\ op' = "graph.getRelatedQuestions"
    /\ id' = i
    /\ maxDepth' = limit
    /\ question' = NoQuestion
    /\ config' = NoConfig
    /\ ret' = FALSE
    /\ exam' = <<>>
    /\ UNCHANGED <<store, idSet, tree, nodes, edges>>

Next ==
  \/ AddQuestion(QuestionInputs)
  \/ RemoveQuestion(IdInputs)
  \/ GenerateExam(ConfigInputs)

Spec == Init /\ [][Next]_vars

NextExam ==
  \/ AddQuestion(ExamQuestionInputs)
  \/ RemoveQuestion(ExamIdInputs)
  \/ GenerateExam(ExamConfigInputs)

SpecExam == Init /\ [][NextExam]_vars

NextGraph ==
  \/ GraphAddQuestion(GraphQuestionInputs(nodes))
  \/ GraphRemoveQuestion(GraphRemoveInputs)
  \/ GetRelatedQuestions(GraphIdInputs, 0..MaxDepth)

SpecGraph == Init /\ [][NextGraph]_vars

NextIndex ==
  \/ AddQuestion(IndexQuestionInputs)
  \/ RemoveQuestion(IndexIdInputs)
  \/ TreeAddQuestion(IndexQuestionInputs, {}, Len(sampleQuestions) + 2)
  \/ TreeRemoveQuestion(IndexIdInputs)
  \/ GraphAddQuestion(IndexQuestionInputs)
  \/ GraphRemoveQuestion(IndexIdInputs)

SpecIndex == Init /\ [][NextIndex]_vars

NextTree ==
  \/ AddTopicNode(TreeTopicInputs, TreeParentInputs, Len(EmptyTree) + MaxNewNodes)
  \/ TreeAddQuestion(TreeQuestionInputs, TreeNameInputs,
                     Len(sampleQuestions) + MaxRootCopies)
  \/ TreeRemoveQuestion(TreeIdInputs)

SpecTree == Init /\ [][NextTree]_vars

\* calculateDistribution on its own: the arguments are drawn at the start
\* and the function is applied to them
InitDistribution ==
  /\ store = SeededStore.store
  /\ idSet = SeededStore.idSet
  /\ tree = SeededTree
  /\ \E g \in SeededGraphs :
       /\ nodes = g.nodes
       /\ edges = g.edges
  /\ op = "init"
  /\ question = NoQuestion
  /\ id = 0
  /\ \E n \in 1..MaxTotal, w \in ShareInputs :
       config = [numQuestions |-> n, difficulties |-> w, topics |-> <<>>]
  /\ maxDepth = 0
  /\ nodeName = ""
  /\ parentId = 0
  /\ candidates \in CandidateInputs
  /\ ret = FALSE
  /\ exam = <<>>
  /\ related = <<>>
  /\ targets = NoDistribution

CalculateDistribution ==
  /\ op = "init"
  /\ targets' = calculateDistribution(config.numQuestions, config.difficulties,
                                      candidates)
  /\ op' = "calculateDistribution"
  /\ UNCHANGED <<store, idSet, tree, nodes, edges, question, id, config,
                 maxDepth, nodeName, parentId, candidates, ret, exam, related>>

NextDistribution == CalculateDistribution

SpecDistribution == InitDistribution /\ [][NextDistribution]_vars

----------------------------------------------------------------------------
(* What the claims speak of                                                *)

\* the candidate pool of the exam last generated (the store is as it was)
Pool == getAvailableQuestions(store, config.topics)

CountOf(qs, d) == Len(FilterDifficulty(qs, d))

DistinctIds(qs) ==
  \A i, j \in 1..Len(qs) : i # j => qs[i].id # qs[j].id

NoRepeats(ts) ==
  \A i, j \in 1..Len(ts) : i # j => ts[i] # ts[j]

StoredIds(s) == {q.id : q \in Range(getAllQuestions(s))}

EqualWeights == [Easy |-> 1, Medium |-> 1, Hard |-> 1]

HoldsSeeded ==
  /\ Len(getAllQuestions(store)) = Len(sampleQuestions)
  /\ Range(getAllQuestions(store)) = Range(sampleQuestions)

Generated == op = "generateExam"

----------------------------------------------------------------------------
(* C1: with exactly the 10 seeded questions, generateExam with             *)
(* numQuestions = 5, weights 1, 1, 1 and no topics returns 5 questions,    *)
(* 2 Easy, 2 Medium and 1 Hard, with no id repeated.                       *)
C1_SeededScenario ==
  (/\ Generated
   /\ HoldsSeeded
   /\ config.numQuestions = 5
   /\ config.difficulties = EqualWeights
   /\ config.topics = <<>>)
  => /\ Len(exam) = 5
     /\ CountOf(exam, "Easy") = 2
     /\ CountOf(exam, "Medium") = 2
     /\ CountOf(exam, "Hard") = 1
     /\ DistinctIds(exam)

(* C2: generateExam never returns more than config.numQuestions questions. *)
C2_SizeBound == Generated => Len(exam) <= config.numQuestions

\* an exam filled to numQuestions after the rounded targets, which summed to
\* more, were reduced
C2_Witness ==
  /\ Generated
  /\ Len(exam) = config.numQuestions
  /\ LET desired == Desired(config.numQuestions, config.difficulties)
     IN desired.Easy + desired.Medium + desired.Hard > config.numQuestions

(* C3: when the pool holds at least numQuestions questions of every        *)
(* difficulty, generateExam returns exactly numQuestions questions.        *)
C3_ExactSize ==
  (/\ Generated
   /\ \A d \in DifficultySet : CountOf(Pool, d) >= config.numQuestions)
  => Len(exam) = config.numQuestions

(* C4: with weights 1, 1, 1 and numQuestions = 9, a pool with at least 3   *)
(* questions of each difficulty yields exactly 3 Easy, 3 Medium, 3 Hard.   *)
C4_Apportionment ==
  (/\ Generated
   /\ config.numQuestions = 9
   /\ config.difficulties = EqualWeights
   /\ \A d \in DifficultySet : CountOf(Pool, d) >= 3)
  => \A d \in DifficultySet : CountOf(exam, d) = 3

(* C5, as claimed: from a pool of exactly 10 questions, numQuestions = 100 *)
(* returns exactly the 10 pool questions, each once, whatever the weights. *)
C5_ShortfallAnyWeights ==
  (/\ Generated
   /\ config.numQuestions = 100
   /\ Len(Pool) = 10)
  => /\ Len(exam) = 10
     /\ Range(exam) = Range(Pool)

(* C5, amended: from a pool of exactly 10 questions, numQuestions = 100    *)
(* returns exactly the 10 pool entries (the Easy ones, then the Medium,    *)
(* then the Hard ones) when every difficulty's rounded target is at least  *)
(* the number of pool questions of that difficulty.                        *)
C5_Shortfall ==
  (/\ Generated
   /\ config.numQuestions = 100
   /\ Len(Pool) = 10
   /\ \A d \in DifficultySet :
        Round(config.difficulties[d],
              config.difficulties.Easy + config.difficulties.Medium
                + config.difficulties.Hard,
              100) >= CountOf(Pool, d))
  => /\ exam = FilterDifficulty(Pool, "Easy")
                 \o FilterDifficulty(Pool, "Medium")
                 \o FilterDifficulty(Pool, "Hard")
     /\ Len(exam) = 10
     /\ Range(exam) = Range(Pool)

\* 100 questions asked of a pool of 10 that is not the seeded one, all 10
\* returned
C5_Witness ==
  /\ Generated
  /\ config.numQuestions = 100
  /\ Len(Pool) = 10
  /\ ~HoldsSeeded
  /\ Len(exam) = 10

(* C6: with a non-empty topic list, every question of the result has a     *)
(* topic of the list.                                                      *)
C6_TopicFilter ==
  (Generated /\ Len(config.topics) > 0)
  => \A i \in 1..Len(exam) : exam[i].topic \in Range(config.topics)

\* an exam over two topics holding a question of each
C6_Witness ==
  /\ Generated
  /\ Len(config.topics) > 0
  /\ \E i, j \in 1..Len(exam) : exam[i].topic # exam[j].topic

(* C7: the result holds, of each difficulty d, at most                     *)
(* round(weight[d] / sum(weights) * numQuestions) questions and at most    *)
(* the number of pool questions of difficulty d.                           *)
C7_DifficultyBounds ==
  Generated
  => \A d \in DifficultySet :
       /\ CountOf(exam, d)
            <= Round(config.difficulties[d],
                     config.difficulties.Easy + config.difficulties.Medium
                       + config.difficulties.Hard,
                     config.numQuestions)
       /\ CountOf(exam, d) <= CountOf(Pool, d)

\* one difficulty bounded by its target with more available, another by
\* availability with a larger target
C7_Witness ==
  /\ Generated
  /\ LET desired == Desired(config.numQuestions, config.difficulties)
     IN \E d, e \in DifficultySet :
          /\ CountOf(exam, d) > 0
          /\ CountOf(exam, d) = desired[d]
          /\ CountOf(Pool, d) > desired[d]
          /\ CountOf(exam, e) > 0
          /\ CountOf(exam, e) = CountOf(Pool, e)
          /\ CountOf(Pool, e) < desired[e]

(* C8: with a topic list that names no topic twice (the empty list         *)
(* included), no question id occurs twice in the result.                   *)
C8_NoDuplicateIds ==
  (Generated /\ NoRepeats(config.topics)) => DistinctIds(exam)

\* four of five Easy questions of two topics chosen, the topic quotas
\* leaving a slot to the second pass
C8_Witness ==
  /\ Generated
  /\ Len(config.topics) = 2
  /\ NoRepeats(config.topics)
  /\ CountOf(Pool, "Easy") = 5
  /\ Len(exam) = 4
  /\ \E i \in 1..Len(exam) : exam[i].topic = "Searching"

(* C9: after any sequence of add and remove calls, no two questions stored *)
(* in the buckets share an id.                                             *)
C9_UniqueIds == DistinctIds(getAllQuestions(store))

\* an id removed and added again under another topic and difficulty
C9_Witness ==
  /\ op = "addQuestion"
  /\ ret
  /\ question.id = 2
  /\ question.topic # "Arrays"
  /\ question.difficulty # "Easy"

(* C10: add of a question whose id is stored returns false and leaves the  *)
(* buckets and the seen-id set (so all counts) unchanged, also when its    *)
(* topic or difficulty differs from the stored question's.                 *)
C10_DuplicateAdd ==
  [][(op' = "addQuestion" /\ question'.id \in StoredIds(store))
       => (ret' = FALSE /\ store' = store /\ idSet' = idSet)]_vars

\* an add refused for a stored id, asked under another topic and difficulty
C10_Witness ==
  /\ op = "addQuestion"
  /\ ~ret
  /\ \E q \in Range(getAllQuestions(store)) :
       /\ q.id = question.id
       /\ q.topic # question.topic
       /\ q.difficulty # question.difficulty

----------------------------------------------------------------------------
(* C11: after any adds and removes, counts().total is the length of        *)
(* getAll(), and counts().byDifficulty sums to counts().total.             *)
C11_RoundTripCounts ==
  LET counts == getQuestionCounts(store)
  IN /\ counts.total = Len(getAllQuestions(store))
     /\ counts.byDifficulty.Easy + counts.byDifficulty.Medium
          + counts.byDifficulty.Hard = counts.total

\* a seeded question removed with a new one stored: 10 questions again
C11_Witness ==
  /\ op = "removeQuestion"
  /\ ret
  /\ FirstNewId \in idSet
  /\ getQuestionCounts(store).total = Len(sampleQuestions)

(* C12: every question of getByTopic(T) has topic T, every question of     *)
(* getByDifficulty(D) has difficulty D, and each stored question is        *)
(* returned for its own topic and for its own difficulty.                  *)
C12_FilterCorrectness ==
  /\ \A t \in Topic :
       \A q \in Range(getQuestionsByTopic(store, t)) : q.topic = t
  /\ \A d \in DifficultySet :
       \A q \in Range(getQuestionsByDifficulty(store, d)) : q.difficulty = d
  /\ \A t \in Topic, d \in DifficultySet :
       \A q \in Range(store[t][d]) :
         /\ q \in Range(getQuestionsByTopic(store, q.topic))
         /\ q \in Range(getQuestionsByDifficulty(store, q.difficulty))

\* a new Hard question stored beside a seeded one filed anew
C12_Witness ==
  /\ op = "addQuestion"
  /\ ret
  /\ question.difficulty = "Hard"
  /\ question.id = FirstNewId
  /\ \E q \in Range(getAllQuestions(store)) :
       q.id = 2 /\ q.topic = "Linked Lists"

(* C13: remove of an id that is not stored (never added, or removed        *)
(* already) returns false and leaves buckets, seen-id set and counts.      *)
C13_RemoveUnknown ==
  [][(op' = "removeQuestion" /\ id' \notin StoredIds(store))
       => (ret' = FALSE /\ store' = store /\ idSet' = idSet)]_vars

\* a second remove of a seeded id, refused
C13_Witness ==
  /\ op = "removeQuestion"
  /\ ~ret
  /\ id = 2

(* C14: remove of a stored id returns true, after it no bucket holds the   *)
(* id and counts().total is one lower; an add of that id that follows      *)
(* returns true and stores the question.                                   *)
C14_RemoveThenAdd ==
  [][/\ (op' = "removeQuestion" /\ id' \in StoredIds(store))
          => /\ ret'
             /\ id' \notin StoredIds(store')
             /\ getQuestionCounts(store').total
                  = getQuestionCounts(store).total - 1
     /\ (op = "removeQuestion" /\ ret /\ op' = "addQuestion"
           /\ question'.id = id)
          => /\ ret'
             /\ question' \in Range(store'[question'.topic][question'.difficulty])
             /\ getQuestionCounts(store').total
                  = getQuestionCounts(store).total + 1]_vars

\* the seeded question 2 stored again, now a Medium one
C14_Witness ==
  /\ op = "addQuestion"
  /\ ret
  /\ question.id = 2
  /\ question.difficulty = "Medium"
  /\ getQuestionCounts(store).byDifficulty.Medium > 4
----------------------------------------------------------------------------
(* C15: removing a question by id from the Repository cascades to every    *)
(* index that references it: after the Repository's remove(id) returns     *)
(* true, neither the Topic Hierarchy Index nor the Relationship Graph      *)
(* Index still holds a question with that id.                              *)
C15_Cascade ==
  (op = "removeQuestion" /\ ret)
    => (id \notin TreeIds(tree) /\ id \notin NodeIds(nodes))

(* C15, as the code has it: a removal the Repository answers with true     *)
(* takes the id out of the Repository and leaves the tree and the graph    *)
(* exactly as they were.                                                   *)
C15_StoreOnly ==
  [][(op' = "removeQuestion" /\ ret')
       => /\ id' \notin StoredIds(store')
          /\ tree' = tree
          /\ nodes' = nodes
          /\ edges' = edges]_vars

\* a question added to store, tree and graph and then removed from the
\* store: tree and graph still hold it
C15_Witness ==
  /\ op = "removeQuestion"
  /\ ret
  /\ id = FirstNewId
  /\ id \notin StoredIds(store)
  /\ id \in TreeIds(tree)
  /\ id \in NodeIds(nodes)
----------------------------------------------------------------------------
(* The Relationship Graph, as the claims speak of it                       *)

\* every id the graph has held or been asked about
GraphIds == GraphIdInputs \cup NodeIds(nodes) \cup DOMAIN edges

\* b is in a's adjacency list
Adjacent(a, b) == b \in Range(EdgesOf(edges, a))

\* the ids within k edges of i, by the adjacency lists
RECURSIVE Within(_, _)
Within(i, k) ==
  IF k = 0
  THEN {i}
  ELSE LET near == Within(i, k - 1)
       IN near \cup {b \in GraphIds : \E a \in near : Adjacent(a, b)}

\* the shortest-path distance from i to an id within MaxDepth + 1 edges of it
Distance(i, b) ==
  CHOOSE k \in 0..(MaxDepth + 1) :
    /\ b \in Within(i, k)
    /\ \A j \in 0..(k - 1) : b \notin Within(i, j)

RelatedIds == [k \in 1..Len(related) |-> related[k].id]

(* C16: after any sequence of Relationship Graph addQuestion and           *)
(* removeQuestion calls, for all nodes A and B, B is in A's adjacency list *)
(* if and only if A is in B's adjacency list.                              *)
C16_Symmetry ==
  \A a, b \in GraphIds : Adjacent(a, b) <=> Adjacent(b, a)

\* a node with edges has been removed and edges remain among the others
C16_Witness ==
  /\ op = "graph.removeQuestion"
  /\ ret
  /\ \E a, b \in NodeIds(nodes) : a # b /\ Adjacent(a, b)
  /\ \E a, b \in NodeIds(nodes) :
       a # b /\ nodes[a].topic = nodes[b].topic /\ ~Adjacent(a, b)

(* C17: after any sequence of Relationship Graph addQuestion and           *)
(* removeQuestion calls (removing an id and adding it again with another   *)
(* topic included), every edge connects two questions that have the same   *)
(* topic.                                                                  *)
C17_SameTopicEdges ==
  \A a \in DOMAIN edges :
    \A b \in Range(edges[a]) :
      /\ a \in NodeIds(nodes)
      /\ b \in NodeIds(nodes)
      /\ nodes[a].topic = nodes[b].topic

\* the first new id, once a question of Arrays, added under Searching and
\* tied to the seeded question of that topic, with Arrays edges around
C17_Witness ==
  /\ op = "graph.addQuestion"
  /\ ret
  /\ question.id = FirstNewId
  /\ question.topic = "Searching"
  /\ Adjacent(FirstNewId, 1)
  /\ Cardinality({a \in NodeIds(nodes) : nodes[a].topic = "Arrays"}) = MaxGraphIds
  /\ \E a \in NodeIds(nodes) : Len(edges[a]) = 2 /\ nodes[a].topic = "Arrays"

(* C18: for every reachable graph and every node id, getRelated(id, 1)     *)
(* returns exactly the direct neighbours of id, each once, and             *)
(* getRelated(id, 0) returns the empty sequence.                           *)
C18_DepthBound ==
  (op = "graph.getRelatedQuestions" /\ id \in NodeIds(nodes))
    => /\ maxDepth = 1 =>
            /\ Range(related) = {nodes[b] : b \in Range(edges[id])}
            /\ Len(related) = Cardinality(Range(edges[id]))
       /\ maxDepth = 0 => related = <<>>

\* the direct neighbours returned, a node two edges away left out
C18_Witness ==
  /\ op = "graph.getRelatedQuestions"
  /\ maxDepth = 1
  /\ Len(related) = 3
  /\ \E b \in NodeIds(nodes) : b \in Within(id, 2) /\ b \notin Within(id, 1)

(* C19: for every reachable graph (cycles included), node id and           *)
(* maxDepth >= 0, getRelated(id, maxDepth) returns exactly the questions   *)
(* whose shortest-path distance from id is between 1 and maxDepth, each    *)
(* once, never the start node, in order of non-decreasing distance; for    *)
(* an id that is not a node it returns the empty sequence.                 *)
C19_ShortestPaths ==
  op = "graph.getRelatedQuestions"
    => IF id \in NodeIds(nodes)
       THEN /\ Range(related) = {nodes[b] : b \in Within(id, maxDepth) \ {id}}
            /\ Len(related) = Cardinality(Within(id, maxDepth) \ {id})
            /\ \A k \in 1..Len(related) : related[k].id # id
            /\ \A j, k \in 1..Len(related) :
                 j < k => Distance(id, RelatedIds[j]) <= Distance(id, RelatedIds[k])
       ELSE related = <<>>

\* a traversal over a cycle that went two edges out
C19_Witness ==
  /\ op = "graph.getRelatedQuestions"
  /\ maxDepth = 2
  /\ id \in NodeIds(nodes)
  /\ \E k \in 1..Len(related) : Distance(id, RelatedIds[k]) = 2
  /\ \E a, b \in Range(RelatedIds) :
       a # b /\ Adjacent(id, a) /\ Adjacent(id, b) /\ Adjacent(a, b)
----------------------------------------------------------------------------
(* C20: when config.topics is empty and a difficulty has more questions    *)
(* in the pool than its target count, the selection for that difficulty    *)
(* fills the whole target from the pool without replacement, so the        *)
(* difficulty contributes exactly its target count of questions.           *)
C20_FillGap ==
  (Generated /\ config.topics = <<>>)
    => \A d \in DifficultySet :
         LET target ==
               calculateDistribution(config.numQuestions, config.difficulties,
                                     Pool)[d]
         IN CountOf(Pool, d) > target
              => /\ CountOf(exam, d) = target
                 /\ Range(FilterDifficulty(exam, d)) \subseteq Range(Pool)
                 /\ DistinctIds(FilterDifficulty(exam, d))
----------------------------------------------------------------------------
(* calculateDistribution, as the claims speak of it                        *)

Calculated == op = "calculateDistribution"

\* the rounded targets of the call
RoundedTargets == Desired(config.numQuestions, config.difficulties)

\* the rounded targets clamped to what the candidates hold
ClampedTargets ==
  [d \in DifficultySet |-> Min(RoundedTargets[d], CountOf(candidates, d))]

SumOf(dist) == dist.Easy + dist.Medium + dist.Hard

(* C21: when the availability-clamped targets sum to more than             *)
(* numQuestions, the excess is taken from Hard first, from Medium only     *)
(* once Hard's target is 0 and from Easy only once Medium's is 0 too, and  *)
(* the returned targets sum to numQuestions; when the clamped sum is at    *)
(* most numQuestions the clamped targets are returned unchanged.           *)
C21_Trim ==
  Calculated
    => IF SumOf(ClampedTargets) > config.numQuestions
       THEN /\ SumOf(targets) = config.numQuestions
            /\ \A d \in DifficultySet :
                 0 <= targets[d] /\ targets[d] <= ClampedTargets[d]
            /\ targets.Medium < ClampedTargets.Medium => targets.Hard = 0
            /\ targets.Easy < ClampedTargets.Easy
                 => (targets.Medium = 0 /\ targets.Hard = 0)
       ELSE targets = ClampedTargets

\* an excess with nothing to take from Hard, taken from Medium
C21_Witness ==
  /\ Calculated
  /\ SumOf(ClampedTargets) > config.numQuestions
  /\ targets.Medium < ClampedTargets.Medium
  /\ targets.Easy = ClampedTargets.Easy
----------------------------------------------------------------------------
\* the place of a difficulty in generateExam's loop
DifficultyRank(d) ==
  IF d = "Easy" THEN 1 ELSE IF d = "Medium" THEN 2 ELSE 3

(* C22: in the question sequence returned by generateExam every Easy       *)
(* question precedes every Medium question and every Medium question       *)
(* precedes every Hard question.                                           *)
C22_DifficultyOrder ==
  Generated
    => \A i, j \in 1..Len(exam) :
         i < j => DifficultyRank(exam[i].difficulty)
                    <= DifficultyRank(exam[j].difficulty)

\* an exam holding questions of all three difficulties
C22_Witness ==
  /\ Generated
  /\ \A d \in DifficultySet : CountOf(exam, d) > 0
----------------------------------------------------------------------------
\* the questions of a list that are filed under topic t
OfTopic(qs, t) ==
  LET isOf(q) == q.topic = t IN SelectSeq(qs, isOf)

\* the target of difficulty d in the exam last generated
TargetOf(d) ==
  calculateDistribution(config.numQuestions, config.difficulties, Pool)[d]

\* the entries of config.topics, in order, under which the store holds a
\* question of difficulty d
EligibleTopics(d) ==
  LET has(t) == Len(FilterDifficulty(getQuestionsByTopic(store, t), d)) > 0
  IN SelectSeq(config.topics, has)

\* every eligible topic holds at least ceil(count / n) questions
EnoughInEveryTopic(d) ==
  LET eligible == EligibleTopics(d)
      n == Len(eligible)
  IN \A k \in 1..n :
       n * Len(FilterDifficulty(getQuestionsByTopic(store, eligible[k]), d))
         >= TargetOf(d)

\* what the entries naming topic t are due: floor(count / n) for each and
\* one more for each of them among the first count mod n entries
QuotaOf(d, t) ==
  LET eligible == EligibleTopics(d)
      n == Len(eligible)
      count == TargetOf(d)
  IN (count \div n) * Cardinality({k \in 1..n : eligible[k] = t})
       + Cardinality({k \in 1..(count % n) : eligible[k] = t})

(* C23: with a non-empty topic list, when more questions of the difficulty *)
(* are available than count and each of the n requested topics that has    *)
(* any question of the difficulty has at least ceil(count / n) of them,    *)
(* every such topic contributes floor(count / n) or floor(count / n) + 1   *)
(* questions, the extra one going to the first (count mod n) of these      *)
(* topics in config.topics order, and the fill-gap step selects nothing:   *)
(* the difficulty contributes count questions, each topic what its         *)
(* entries are due.                                                        *)
C23_TopicQuotas ==
  (Generated /\ Len(config.topics) > 0)
    => \A d \in DifficultySet :
         (/\ TargetOf(d) > 0
          /\ CountOf(Pool, d) > TargetOf(d)
          /\ EnoughInEveryTopic(d))
           => /\ CountOf(exam, d) = TargetOf(d)
              /\ \A t \in Range(EligibleTopics(d)) :
                   Len(OfTopic(FilterDifficulty(exam, d), t)) = QuotaOf(d, t)

\* one Easy question asked of two topics that both hold one: it comes
\* from the topic listed first
C23_Witness ==
  /\ Generated
  /\ TargetOf("Easy") = 1
  /\ Len(EligibleTopics("Easy")) = 2
  /\ NoRepeats(config.topics)
  /\ CountOf(Pool, "Easy") > 2
  /\ CountOf(exam, "Easy") = 1
  /\ exam[1].topic = config.topics[1]
----------------------------------------------------------------------------
(* C24: immediately after a successful Relationship Graph addQuestion(q),  *)
(* q has exactly min(3, k) neighbours, k being the number of nodes already *)
(* in the graph with q's topic, and each neighbour is one of those k       *)
(* nodes; addQuestion of an id that is already a node returns false and    *)
(* leaves nodes and edges unchanged.                                       *)
C24_NewNodeEdges ==
  [][op' = "graph.addQuestion"
       => IF question'.id \in NodeIds(nodes)
          THEN ret' = FALSE /\ nodes' = nodes /\ edges' = edges
          ELSE LET sameTopic ==
                     {i \in NodeIds(nodes) : nodes[i].topic = question'.topic}
                   neighbours == edges'[question'.id]
               IN /\ ret'
                  /\ Len(neighbours) = Min(3, Cardinality(sameTopic))
                  /\ Cardinality(Range(neighbours)) = Len(neighbours)
                  /\ Range(neighbours) \subseteq sameTopic]_vars

\* a question added beside four of its topic: three of them are its
\* neighbours
C24_Witness ==
  /\ op = "graph.addQuestion"
  /\ ret
  /\ Len(edges[question.id]) = 3
  /\ Cardinality({i \in NodeIds(nodes) :
                    i # question.id /\ nodes[i].topic = question.topic}) = 4

(* C25: after any sequence of Relationship Graph addQuestion and           *)
(* removeQuestion calls, the ids with an adjacency list are the nodes, and *)
(* every entry of every adjacency list is a present node other than the    *)
(* list's owner and occurs once in that list.                              *)
C25_WellFormedEdges ==
  /\ DOMAIN edges = NodeIds(nodes)
  /\ \A a \in DOMAIN edges :
       /\ Range(edges[a]) \subseteq NodeIds(nodes) \ {a}
       /\ Cardinality(Range(edges[a])) = Len(edges[a])

\* a node with three neighbours has been removed; a node of its topic
\* still has three
C25_Witness ==
  /\ op = "graph.removeQuestion"
  /\ ret
  /\ id \notin NodeIds(nodes)
  /\ \E a \in NodeIds(nodes) : Len(edges[a]) = 3
  /\ \E a \in NodeIds(nodes) : nodes[a].topic = "Arrays" /\ Len(edges[a]) = 2
----------------------------------------------------------------------------
(* C26: for every Topic Hierarchy state reachable through addTopicNode,    *)
(* addQuestion (with any topicName) and removeQuestion, after              *)
(* removeQuestion(id) returns, no node of the tree, the root's aggregate   *)
(* list included, still holds a question with that id.                     *)
C26_RemovedEverywhere ==
  op = "tree.removeQuestion" => id \notin TreeIds(tree)

\* the ids of the questions a node lists
IdsOf(qs) == {qs[k].id : k \in 1..Len(qs)}

(* C27: Topic Hierarchy addQuestion(question, topicName) returns true      *)
(* exactly when a node named topicName exists and holds no question with   *)
(* that id; a successful call appends the question exactly once to that    *)
(* node's list and exactly once to the root's aggregate list, and a        *)
(* failing call leaves every node's list unchanged.                        *)
C27_AddQuestion ==
  [][op' = "tree.addQuestion"
       => LET q == question'
              target == findNodeByName(tree, nodeName')
          IN /\ target # 0 <=> \E k \in 1..Len(tree) : tree[k].name = nodeName'
             /\ ret' <=> (target # 0 /\ q.id \notin IdsOf(tree[target].questions))
             /\ Len(tree') = Len(tree)
             /\ \A k \in 1..Len(tree) :
                  /\ tree'[k].name = tree[k].name
                  /\ tree'[k].parent = tree[k].parent
                  /\ tree'[k].questions =
                       IF ret' /\ (k = target \/ k = RootId)
                       THEN Append(tree[k].questions, q)
                       ELSE tree[k].questions]_vars

----------------------------------------------------------------------------
(* C28: for every configuration whose topic list is non-empty and has no   *)
(* repeated topic, the diversity selection never loses questions: for each *)
(* difficulty d, generateExam returns exactly the trimmed target of d,     *)
(* which is min(round(weight[d] / sum(weights) * numQuestions), number of  *)
(* pool questions of difficulty d) reduced by any Hard-first trim.         *)
C28_NoLoss ==
  (Generated /\ Len(config.topics) > 0 /\ NoRepeats(config.topics))
    => \A d \in DifficultySet : CountOf(exam, d) = TargetOf(d)

\* four Easy questions asked of two topics, one of which holds a single
\* Easy question: the first pass selects three and the second pass the fourth
C28_Witness ==
  /\ Generated
  /\ Len(config.topics) = 2
  /\ NoRepeats(config.topics)
  /\ TargetOf("Easy") = 4
  /\ CountOf(Pool, "Easy") > 4
  /\ Len(EligibleTopics("Easy")) = 2
  /\ ~EnoughInEveryTopic("Easy")
  /\ CountOf(exam, "Easy") = 4
----------------------------------------------------------------------------
(* C29: for every positive integer numQuestions and every valid weight     *)
(* triple, the three rounded targets                                       *)
(* round(weight[d] / sum(weights) * numQuestions) sum to at most           *)
(* numQuestions + 1, so the trim step of the distribution calculation      *)
(* never removes more than one unit in total.                              *)
C29_RoundedSum ==
  Calculated
    => /\ SumOf(RoundedTargets) <= config.numQuestions + 1
       /\ SumOf(targets) <= SumOf(ClampedTargets)
       /\ SumOf(ClampedTargets) - SumOf(targets) <= 1

\* the rounded targets sum to numQuestions + 1, the candidates hold them
\* all, and the trim removes the one unit
C29_Witness ==
  /\ Calculated
  /\ SumOf(RoundedTargets) = config.numQuestions + 1
  /\ SumOf(ClampedTargets) = config.numQuestions + 1
  /\ SumOf(targets) = config.numQuestions
----------------------------------------------------------------------------
(* C30: generateExam leaves the Repository unchanged: for every Repository *)
(* state and configuration, the contents and order of every (topic,        *)
(* difficulty) bucket and the seen-id set are the same after the call as   *)
(* before, although the selection removes chosen questions from its own    *)
(* working lists.                                                          *)
C30_RepositoryUnchanged ==
  [][op' = "generateExam" => (store' = store /\ idSet' = idSet)]_vars

\* an exam selected topic by topic from more questions than asked for, so
\* the selected ones were spliced out of the working lists, and the store
\* still files every one of them
C30_Witness ==
  /\ Generated
  /\ Len(config.topics) > 0
  /\ Len(exam) > 0
  /\ \E d \in DifficultySet :
       TargetOf(d) > 0 /\ CountOf(Pool, d) > TargetOf(d)
  /\ \A k \in 1..Len(exam) :
       /\ exam[k].id \in idSet
       /\ exam[k] \in Range(store[exam[k].topic][exam[k].difficulty])
====
